---- MODULE Spec2Model ----
(***************************************************************************)
(* pep8radius/vcs.py: the version-control abstraction layer.               *)
(*                                                                         *)
(* Text is modelled as a sequence of one-character strings, so that the    *)
(* string operations of the source (title, startswith, slicing, split,     *)
(* rsplit, splitlines, strip, the regular expressions) are computed on     *)
(* characters.  An argument vector is a sequence of L("word") for the      *)
(* literal words of the source and T(text) for computed text.              *)
(*                                                                         *)
(* Three specifications share the module:                                  *)
(*   SpecSel    backend selection  (which, from_string, the probes)        *)
(*   Spec       the drivers        (__init__, current_branch, merge_base,  *)
(*                                  _branch_point, the diff commands)      *)
(*   SpecParse  parse_diff_filenames of the three backends                 *)
(***************************************************************************)
EXTENDS Integers, Sequences, FiniteSets, TLC

VARIABLES gl, sel, repo, drv, ctor, op, radius, parsed

vars == <<gl, sel, repo, drv, ctor, op, radius, parsed>>

(***************************************************************************)
(* Values                                                                  *)
(***************************************************************************)
\* Python's None
None == [none |-> TRUE]

\* a literal word of an argument vector
L(s) == [lit |-> s]

\* a computed text (sequence of characters)
T(t) == [tok |-> t]

\* a normal return
Ok(v) == [ok |-> TRUE, val |-> v, err |-> "-"]

\* a raised exception
Raise(e) == [ok |-> FALSE, val |-> None, err |-> e]

\* the exceptions a failing process invocation raises
ProcErrors == {"CalledProcessError", "OSError"}

(***************************************************************************)
(* Characters and text                                                     *)
(***************************************************************************)
LowerAlpha == <<"a","b","c","d","e","f","g","h","i","j","k","l","m",
                "n","o","p","q","r","s","t","u","v","w","x","y","z">>

UpperAlpha == <<"A","B","C","D","E","F","G","H","I","J","K","L","M",
                "N","O","P","Q","R","S","T","U","V","W","X","Y","Z">>

IsLower(c) == \E i \in 1..Len(LowerAlpha) : LowerAlpha[i] = c

IsUpper(c) == \E i \in 1..Len(UpperAlpha) : UpperAlpha[i] = c

IsCased(c) == IsLower(c) \/ IsUpper(c)

Upper(c) ==
    IF IsLower(c)
    THEN UpperAlpha[CHOOSE i \in 1..Len(LowerAlpha) : LowerAlpha[i] = c]
    ELSE c

Lower(c) ==
    IF IsUpper(c)
    THEN LowerAlpha[CHOOSE i \in 1..Len(UpperAlpha) : UpperAlpha[i] = c]
    ELSE c

\* str.lower()
lower(s) == [i \in 1..Len(s) |-> Lower(s[i])]

\* str.title(): a cased character is upper-cased when the character before
\* it is not cased (or there is none) and lower-cased otherwise.
title(s) ==
    [i \in 1..Len(s) |->
        IF i > 1 /\ IsCased(s[i - 1]) THEN Lower(s[i]) ELSE Upper(s[i])]

\* str.startswith(p)
startswith(s, p) == Len(p) <= Len(s) /\ SubSeq(s, 1, Len(p)) = p

\* str.endswith(p)
endswith(s, p) ==
    Len(p) <= Len(s) /\ SubSeq(s, Len(s) - Len(p) + 1, Len(s)) = p

\* s[n:]
SliceFrom(s, n) == SubSeq(s, n + 1, Len(s))

\* s[:n]
SliceTo(s, n) == SubSeq(s, 1, IF n < Len(s) THEN n ELSE Len(s))

(***************************************************************************)
(* The module's global namespace                                           *)
(***************************************************************************)
k_os == <<"o","s">>

k_re == <<"r","e">>

k_shell_out == <<"s","h","e","l","l","_","o","u","t">>

k_shell_out_ignore_exitcode ==
    <<"s","h","e","l","l","_","o","u","t","_","i","g","n","o","r","e",
      "_","e","x","i","t","c","o","d","e">>

k_CalledProcessError ==
    <<"C","a","l","l","e","d","P","r","o","c","e","s","s","E","r","r","o","r">>

k_using_git == <<"u","s","i","n","g","_","g","i","t">>

k_using_hg == <<"u","s","i","n","g","_","h","g">>

k_using_bzr == <<"u","s","i","n","g","_","b","z","r">>

k_VersionControl ==
    <<"V","e","r","s","i","o","n","C","o","n","t","r","o","l">>

k_Git == <<"G","i","t">>

k_Hg == <<"H","g">>

k_Bzr == <<"B","z","r">>

\* the backend tags
Backends == {"git", "hg", "bzr"}

\* The names bound at module level, each with what it is bound to.
GlobalsDict ==
    {<<k_os, [module |-> "os"]>>,
     <<k_re, [module |-> "re"]>>,
     <<k_shell_out, [fn |-> "shell_out"]>>,
     <<k_shell_out_ignore_exitcode, [fn |-> "shell_out_ignore_exitcode"]>>,
     <<k_CalledProcessError, [cls |-> "CalledProcessError"]>>,
     <<k_using_git, [probe |-> "git"]>>,
     <<k_using_hg, [probe |-> "hg"]>>,
     <<k_using_bzr, [probe |-> "bzr"]>>,
     <<k_VersionControl, [cls |-> "VersionControl"]>>,
     <<k_Git, [cls |-> "Git"]>>,
     <<k_Hg, [cls |-> "Hg"]>>,
     <<k_Bzr, [cls |-> "Bzr"]>>}

\* globals().items(): the order a dictionary is iterated in is the
\* interpreter's (insertion order in some, hash order in others); the
\* names which() skips are kept in place and the three using_ entries take
\* any order among themselves.
GlobalsItemOrders ==
    LET probes == {e \in GlobalsDict : startswith(e[1], <<"u","s","i","n","g","_">>)}
        perms == {p \in [1..3 -> probes] : \A i, j \in 1..3 : i # j => p[i] # p[j]}
    IN {<<<<k_os, [module |-> "os"]>>,
          <<k_re, [module |-> "re"]>>,
          <<k_shell_out, [fn |-> "shell_out"]>>,
          <<k_shell_out_ignore_exitcode, [fn |-> "shell_out_ignore_exitcode"]>>,
          <<k_CalledProcessError, [cls |-> "CalledProcessError"]>>,
          p[1], p[2], p[3],
          <<k_VersionControl, [cls |-> "VersionControl"]>>,
          <<k_Git, [cls |-> "Git"]>>,
          <<k_Hg, [cls |-> "Hg"]>>,
          <<k_Bzr, [cls |-> "Bzr"]>>>> : p \in perms}

(***************************************************************************)
(* Text splitting and paths                                                *)
(***************************************************************************)
\* the positions of character c in s
Positions(s, c) == {i \in 1..Len(s) : s[i] = c}

RECURSIVE split(_, _)
\* str.split(c): the pieces of s between the occurrences of c
split(s, c) ==
    IF Positions(s, c) = {}
    THEN <<s>>
    ELSE LET i == CHOOSE j \in Positions(s, c) : \A k \in Positions(s, c) : j <= k
         IN <<SubSeq(s, 1, i - 1)>> \o split(SubSeq(s, i + 1, Len(s)), c)

\* str.rsplit(c, 1): s cut once, at the last occurrence of c
rsplit1(s, c) ==
    IF Positions(s, c) = {}
    THEN <<s>>
    ELSE LET i == CHOOSE j \in Positions(s, c) : \A k \in Positions(s, c) : j >= k
         IN <<SubSeq(s, 1, i - 1), SubSeq(s, i + 1, Len(s))>>

RECURSIVE join(_, _)
\* c.join(parts)
join(parts, c) ==
    IF parts = <<>> THEN <<>>
    ELSE IF Len(parts) = 1 THEN parts[1]
    ELSE parts[1] \o <<c>> \o join(Tail(parts), c)

RECURSIVE normpath_comps(_, _, _)
\* the loop of posixpath.normpath over the components left, new_comps so far
normpath_comps(comps, new_comps, initial_slashes) ==
    IF comps = <<>> THEN new_comps
    ELSE LET comp == comps[1]
             n == Len(new_comps)
         IN IF comp = <<>> \/ comp = <<".">>
            THEN normpath_comps(Tail(comps), new_comps, initial_slashes)
            ELSE IF \/ comp # <<".", ".">>
                    \/ (initial_slashes = 0 /\ n = 0)
                    \/ (n > 0 /\ new_comps[n] = <<".", ".">>)
                 THEN normpath_comps(Tail(comps), Append(new_comps, comp),
                                     initial_slashes)
                 ELSE IF n > 0
                      THEN normpath_comps(Tail(comps), SubSeq(new_comps, 1, n - 1),
                                          initial_slashes)
                      ELSE normpath_comps(Tail(comps), new_comps, initial_slashes)

\* os.path.normpath (posix)
normpath(path) ==
    IF path = <<>> THEN <<".">>
    ELSE LET initial_slashes ==
                 IF ~startswith(path, <<"/">>) THEN 0
                 ELSE IF startswith(path, <<"/", "/">>)
                         /\ ~startswith(path, <<"/", "/", "/">>) THEN 2
                 ELSE 1
             body == join(normpath_comps(split(path, "/"), <<>>, initial_slashes), "/")
             out == [i \in 1..initial_slashes |-> "/"] \o body
         IN IF out = <<>> THEN <<".">> ELSE out

(***************************************************************************)
(* The working tree and the backend tools                                  *)
(***************************************************************************)
\* the revisions of the repository
KnownRevs == {[i \in 1..12 |-> "a"], [i \in 1..12 |-> "b"]}

\* a revision the repository does not have
JunkRev == <<"j","u","n","k">>

\* the revisions a caller asks for
RequestRevs == KnownRevs \cup {JunkRev}

\* what a root-detection command prints
RootOutputs == {<<"/","w","/","r">>, <<"/","w","/","/","r","/",".","/">>}

\* the root a caller may give
RootOverrides == {<<"/","o">>}

\* a process that exits with success, printing out
Exit0(out) == [ok |-> TRUE, out |-> out, err |-> "-"]

\* a process that exits with a failure, printing out
ExitFail(out) == [ok |-> FALSE, out |-> out, err |-> "CalledProcessError"]

\* The working trees: whether the root-detection command succeeds and what
\* it prints, the current revision (or a failing identify command), whether
\* the tree has uncommitted changes, and the common ancestor the tool
\* reports for two revisions it knows (or none).
Repos ==
    [root : {ExitFail(<<>>)} \cup {Exit0(p) : p \in RootOutputs},
     tip : {None} \cup {T(r) : r \in KnownRevs},
     dirty : BOOLEAN,
     anc : {None} \cup {T(r) : r \in KnownRevs}]

\* whether an argument names a revision of the repository
IsKnown(a) == \E r \in KnownRevs : a = T(r)

MergeBaseSentence ==
    <<"m","e","r","g","e"," ","b","a","s","e"," ","i","s"," ",
      "r","e","v","i","s","i","o","n"," ">>

NoRevisionSentence ==
    <<"b","z","r",":"," ","E","R","R","O","R",":"," ","R","e","q","u","e","s",
      "t","e","d"," ","r","e","v","i","s","i","o","n"," ","d","o","e","s"," ",
      "n","o","t"," ","e","x","i","s","t",":"," ">>

NoAncestorSentence ==
    <<"b","z","r",":"," ","E","R","R","O","R",":"," ","n","o"," ",
      "c","o","m","m","o","n"," ","a","n","c","e","s","t","o","r">>

\* What running argv does in world w: a probe environment [probe] or a
\* working tree of Repos.  A command given a revision the repository does
\* not have fails; bzr find-merge-base answers its first revision when the
\* second is not found.
Run(w, argv) ==
    CASE Len(argv) = 2 /\ argv[2] = L("log") -> w.probe[argv[1].lit]
      [] argv = <<L("git"), L("rev-parse"), L("--show-toplevel")>> -> w.root
      [] argv = <<L("hg"), L("root")>> -> w.root
      [] argv = <<L("bzr"), L("root")>> -> w.root
      [] argv = <<L("git"), L("rev-parse"), L("HEAD")>> ->
            IF w.tip = None THEN ExitFail(<<>>) ELSE Exit0(w.tip.tok)
      [] argv = <<L("hg"), L("id")>> ->
            IF w.tip = None THEN ExitFail(<<>>)
            ELSE Exit0(w.tip.tok \o (IF w.dirty THEN <<"+">> ELSE <<>>)
                       \o <<" ","t","i","p">>)
      [] argv = <<L("bzr"), L("version-info"), L("--custom"),
                  L("--template={revision_id}")>> ->
            IF w.tip = None THEN ExitFail(<<>>) ELSE Exit0(w.tip.tok)
      [] Len(argv) = 4 /\ argv[1] = L("git") /\ argv[2] = L("merge-base") ->
            IF IsKnown(argv[3]) /\ IsKnown(argv[4]) /\ w.anc # None
            THEN Exit0(w.anc.tok) ELSE ExitFail(<<>>)
      [] Len(argv) = 4 /\ argv[1] = L("hg") /\ argv[2] = L("debugancestor") ->
            IF IsKnown(argv[3]) /\ IsKnown(argv[4]) /\ w.anc # None
            THEN Exit0(<<"3", ":">> \o w.anc.tok) ELSE ExitFail(<<>>)
      [] Len(argv) = 4 /\ argv[1] = L("bzr") /\ argv[2] = L("log") ->
            IF IsKnown(argv[4]) THEN Exit0(<<"l","o","g">>) ELSE ExitFail(<<>>)
      [] Len(argv) = 4 /\ argv[1] = L("bzr") /\ argv[2] = L("find-merge-base") ->
            IF ~IsKnown(argv[3])
            THEN ExitFail(NoRevisionSentence \o argv[3].tok)
            ELSE IF ~IsKnown(argv[4])
            THEN Exit0(MergeBaseSentence \o argv[3].tok)
            ELSE IF w.anc = None
            THEN ExitFail(NoAncestorSentence)
            ELSE Exit0(MergeBaseSentence \o w.anc.tok)

(***************************************************************************)
(* The process execution adapter (pep8radius.shell)                        *)
(***************************************************************************)
\* One process invocation: what was run, where, whether it exited with
\* success, what it printed, and whether the caller ignores the exit code.
Call(argv, cwd, r, ignore) ==
    [argv |-> argv, cwd |-> cwd, ok |-> r.ok, out |-> r.out, ignore |-> ignore]

\* shell_out(argv, cwd): the output, or the failure raised
shell_out(argv, cwd, w) ==
    LET r == Run(w, argv)
    IN [calls |-> <<Call(argv, cwd, r, FALSE)>>,
        res |-> IF r.ok THEN Ok(T(r.out)) ELSE Raise(r.err)]

\* shell_out_ignore_exitcode(argv, cwd): the output whatever the exit code
shell_out_ignore_exitcode(argv, cwd, w) ==
    LET r == Run(w, argv)
    IN [calls |-> <<Call(argv, cwd, r, TRUE)>>,
        res |-> IF r.ok \/ r.err = "CalledProcessError"
                THEN Ok(T(r.out)) ELSE Raise(r.err)]

(***************************************************************************)
(* Backend selection                                                       *)
(***************************************************************************)
\* what `<tool> log` does in the current directory, for each backend
ProbeEnvs ==
    [Backends -> {[ok |-> TRUE, out |-> <<"l","o","g">>, err |-> "-"],
                  [ok |-> FALSE, out |-> <<>>, err |-> "CalledProcessError"],
                  [ok |-> FALSE, out |-> <<>>, err |-> "OSError"]}]

using_git(w) ==
    LET c == shell_out(<<L("git"), L("log")>>, None, w)
    IN [calls |-> c.calls,
        res |-> IF c.res.ok THEN Ok(TRUE)
                ELSE IF c.res.err \in ProcErrors THEN Ok(FALSE) ELSE c.res]

using_hg(w) ==
    LET c == shell_out(<<L("hg"), L("log")>>, None, w)
    IN [calls |-> c.calls,
        res |-> IF c.res.ok THEN Ok(TRUE)
                ELSE IF c.res.err \in ProcErrors THEN Ok(FALSE) ELSE c.res]

using_bzr(w) ==
    LET c == shell_out(<<L("bzr"), L("log")>>, None, w)
    IN [calls |-> c.calls,
        res |-> IF c.res.ok THEN Ok(TRUE)
                ELSE IF c.res.err \in ProcErrors THEN Ok(FALSE) ELSE c.res]

\* using_vc(): the call of a value found in globals under a using_ name
CallProbe(v, w) ==
    CASE v = [probe |-> "git"] -> using_git(w)
      [] v = [probe |-> "hg"] -> using_hg(w)
      [] v = [probe |-> "bzr"] -> using_bzr(w)

\* a from_string that looks the name up as given
from_string_verbatim(vc) ==
    IF \E e \in GlobalsDict : e[1] = vc
    THEN Ok((CHOOSE e \in GlobalsDict : e[1] = vc)[2])
    ELSE Raise("NotImplementedError")

\* VersionControl.from_string(vc): globals()[vc.title()]
from_string(vc) ==
    IF \E e \in GlobalsDict : e[1] = title(vc)
    THEN Ok((CHOOSE e \in GlobalsDict : e[1] = title(vc))[2])
    ELSE Raise("NotImplementedError")

RECURSIVE which_loop(_, _, _, _)
\* the for loop of which() from item i on, after the invocations in calls
which_loop(items, i, w, calls) ==
    IF i > Len(items)
    THEN [calls |-> calls, res |-> Raise("NotImplementedError")]
    ELSE IF startswith(items[i][1], <<"u","s","i","n","g","_">>)
         THEN LET u == CallProbe(items[i][2], w)
              IN IF u.res.ok /\ u.res.val
                 THEN [calls |-> calls \o u.calls,
                       res |-> from_string(SliceFrom(items[i][1], 6))]
                 ELSE which_loop(items, i + 1, w, calls \o u.calls)
         ELSE which_loop(items, i + 1, w, calls)

RECURSIVE which_last_loop(_, _, _, _, _)
\* a loop that does not stop at the first success and keeps the last
which_last_loop(items, i, w, calls, found) ==
    IF i > Len(items)
    THEN [calls |-> calls, res |-> found]
    ELSE IF startswith(items[i][1], <<"u","s","i","n","g","_">>)
         THEN LET u == CallProbe(items[i][2], w)
              IN which_last_loop(items, i + 1, w, calls \o u.calls,
                     IF u.res.ok /\ u.res.val
                     THEN from_string(SliceFrom(items[i][1], 6))
                     ELSE found)
         ELSE which_last_loop(items, i + 1, w, calls, found)

which_last(items, w) ==
    which_last_loop(items, 1, w, <<>>, Raise("NotImplementedError"))

\* VersionControl.which()
which(items, w) == which_loop(items, 1, w, <<>>)

(***************************************************************************)
(* The drivers.  A driver d is [vc, root]; every method returns the        *)
(* process invocations it made and its result.                             *)
(***************************************************************************)
\* a _shell_out that forgets the working directory
VersionControl_shell_out_nocwd(d, argv, w) == shell_out(argv, None, w)

\* VersionControl._shell_out: shell_out(*args, cwd=self.root)
VersionControl_shell_out(d, argv, w) == shell_out(argv, d.root, w)

Git_current_branch(d, w) ==
    VersionControl_shell_out(d, <<L("git"), L("rev-parse"), L("HEAD")>>, w)

Git_root_dir(cwd, w) ==
    LET c == shell_out(<<L("git"), L("rev-parse"), L("--show-toplevel")>>, cwd, w)
    IN [calls |-> c.calls,
        res |-> IF c.res.ok THEN Ok(T(normpath(c.res.val.tok))) ELSE c.res]

Git_merge_base(d, rev1, rev2, w) ==
    VersionControl_shell_out(d, <<L("git"), L("merge-base"), rev1, rev2>>, w)

Git_file_diff_cmd(r, f) == <<L("git"), L("diff"), r.rev, f>>

Git_filenames_diff_cmd(r) == <<L("git"), L("diff"), r.rev, L("--name-only")>>

Hg_current_branch(d, w) ==
    LET c == VersionControl_shell_out(d, <<L("hg"), L("id")>>, w)
    IN [calls |-> c.calls,
        res |-> IF c.res.ok THEN Ok(T(SliceTo(c.res.val.tok, 12))) ELSE c.res]

Hg_root_dir(cwd, w) == shell_out(<<L("hg"), L("root")>>, cwd, w)

Hg_merge_base(d, rev1, rev2, w) ==
    LET c == VersionControl_shell_out(d, <<L("hg"), L("debugancestor"), rev1, rev2>>, w)
    IN [calls |-> c.calls,
        res |-> IF ~c.res.ok THEN c.res
                ELSE LET parts == split(c.res.val.tok, ":")
                     IN IF Len(parts) >= 2 THEN Ok(T(parts[2]))
                        ELSE Raise("IndexError")]

Hg_file_diff_cmd(r, f) == <<L("hg"), L("diff"), L("-r"), r.rev, f>>

Hg_filenames_diff_cmd(r) == <<L("hg"), L("diff"), L("--stat"), L("-r"), r.rev>>

Bzr_current_branch(d, w) ==
    VersionControl_shell_out(d, <<L("bzr"), L("version-info"), L("--custom"),
                                  L("--template={revision_id}")>>, w)

Bzr_root_dir(cwd, w) == shell_out(<<L("bzr"), L("root")>>, cwd, w)

\* a merge_base without the check of rev1
Bzr_merge_base_nocheck(d, rev1, rev2, w) ==
    LET f == shell_out_ignore_exitcode(
                 <<L("bzr"), L("find-merge-base"), rev1, rev2>>, d.root, w)
        parts == rsplit1(f.res.val.tok, " ")
    IN [calls |-> f.calls,
        res |-> IF ~f.res.ok THEN f.res
                ELSE IF Len(parts) >= 2 THEN Ok(T(parts[2]))
                ELSE Raise("IndexError")]

\* a merge_base that lets a failing find-merge-base raise
Bzr_merge_base_exitcode(d, rev1, rev2, w) ==
    LET c == shell_out(<<L("bzr"), L("log"), L("-c"), rev1>>, d.root, w)
    IN IF ~c.res.ok THEN c
       ELSE LET f == shell_out(
                         <<L("bzr"), L("find-merge-base"), rev1, rev2>>, d.root, w)
                parts == rsplit1(f.res.val.tok, " ")
            IN [calls |-> c.calls \o f.calls,
                res |-> IF ~f.res.ok THEN f.res
                        ELSE IF Len(parts) >= 2 THEN Ok(T(parts[2]))
                        ELSE Raise("IndexError")]

Bzr_merge_base(d, rev1, rev2, w) ==
    LET c == shell_out(<<L("bzr"), L("log"), L("-c"), rev1>>, d.root, w)
    IN IF ~c.res.ok THEN c
       ELSE LET f == shell_out_ignore_exitcode(
                         <<L("bzr"), L("find-merge-base"), rev1, rev2>>, d.root, w)
                parts == rsplit1(f.res.val.tok, " ")
            IN [calls |-> c.calls \o f.calls,
                res |-> IF ~f.res.ok THEN f.res
                        ELSE IF Len(parts) >= 2 THEN Ok(T(parts[2]))
                        ELSE Raise("IndexError")]

Bzr_file_diff_cmd(r, f) == <<L("bzr"), L("diff"), f, L("-r"), r.rev>>

Bzr_filenames_diff_cmd(r) == <<L("bzr"), L("status"), L("-S"), L("-r"), r.rev>>

\* self.current_branch() of the driver's class
current_branch(d, w) ==
    CASE d.vc = "git" -> Git_current_branch(d, w)
      [] d.vc = "hg" -> Hg_current_branch(d, w)
      [] d.vc = "bzr" -> Bzr_current_branch(d, w)

\* self.merge_base(rev1, rev2) of the driver's class
merge_base(d, rev1, rev2, w) ==
    CASE d.vc = "git" -> Git_merge_base(d, rev1, rev2, w)
      [] d.vc = "hg" -> Hg_merge_base(d, rev1, rev2, w)
      [] d.vc = "bzr" -> Bzr_merge_base(d, rev1, rev2, w)

\* self.root_dir() of the class being constructed
root_dir(vc, cwd, w) ==
    CASE vc = "git" -> Git_root_dir(cwd, w)
      [] vc = "hg" -> Hg_root_dir(cwd, w)
      [] vc = "bzr" -> Bzr_root_dir(cwd, w)

\* vc.file_diff_cmd(r, f) of the driver's class
file_diff_cmd(vc, r, f) ==
    CASE vc = "git" -> Git_file_diff_cmd(r, f)
      [] vc = "hg" -> Hg_file_diff_cmd(r, f)
      [] vc = "bzr" -> Bzr_file_diff_cmd(r, f)

\* vc.filenames_diff_cmd(r) of the driver's class
filenames_diff_cmd(vc, r) ==
    CASE vc = "git" -> Git_filenames_diff_cmd(r)
      [] vc = "hg" -> Hg_filenames_diff_cmd(r)
      [] vc = "bzr" -> Bzr_filenames_diff_cmd(r)

\* VersionControl.__init__(root)
VersionControl_init(vc, root, w) ==
    IF root = None
    THEN LET r == root_dir(vc, None, w)
         IN [calls |-> r.calls,
             res |-> IF r.res.ok THEN Ok([vc |-> vc, root |-> r.res.val])
                     ELSE r.res]
    ELSE [calls |-> <<>>, res |-> Ok([vc |-> vc, root |-> root])]

\* a _branch_point that answers no revision when none is asked for
VersionControl_branch_point_sentinel(d, rev, w) ==
    IF rev = None
    THEN [calls |-> <<>>, res |-> Ok(None)]
    ELSE LET c == current_branch(d, w)
         IN IF ~c.res.ok THEN c
            ELSE LET m == merge_base(d, rev, c.res.val, w)
                 IN [calls |-> c.calls \o m.calls, res |-> m.res]

\* a _branch_point that answers the revision asked for as it is
VersionControl_branch_point_verbatim(d, rev, w) ==
    LET c == current_branch(d, w)
    IN IF ~c.res.ok THEN c
       ELSE IF rev = None THEN c
       ELSE [calls |-> c.calls, res |-> Ok(rev)]

\* a _branch_point that gives merge_base the current revision first
VersionControl_branch_point_swapped(d, rev, w) ==
    LET c == current_branch(d, w)
    IN IF ~c.res.ok THEN c
       ELSE IF rev = None THEN c
       ELSE LET m == merge_base(d, c.res.val, rev, w)
            IN [calls |-> c.calls \o m.calls, res |-> m.res]

\* a _branch_point that asks for the current revision again when the
\* first attempt fails
VersionControl_branch_point_retry(d, rev, w) ==
    LET c1 == current_branch(d, w)
        c2 == current_branch(d, w)
        c == IF c1.res.ok THEN c1
             ELSE [calls |-> c1.calls \o c2.calls, res |-> c2.res]
    IN IF ~c.res.ok THEN c
       ELSE IF rev = None THEN c
       ELSE LET m == merge_base(d, rev, c.res.val, w)
            IN [calls |-> c.calls \o m.calls, res |-> m.res]

\* VersionControl._branch_point(rev)
VersionControl_branch_point(d, rev, w) ==
    LET c == current_branch(d, w)
    IN IF ~c.res.ok THEN c
       ELSE IF rev = None THEN c
       ELSE LET m == merge_base(d, rev, c.res.val, w)
            IN [calls |-> c.calls \o m.calls, res |-> m.res]

(***************************************************************************)
(* parse_diff_filenames                                                    *)
(***************************************************************************)
\* the characters \s matches
IsSpace(c) == c \in {" ", "\t", "\n", "\r"}

\* str.splitlines(): the lines of s, without a last empty one
splitlines(s) ==
    LET pieces == split(s, "\n")
    IN IF pieces[Len(pieces)] = <<>>
       THEN SubSeq(pieces, 1, Len(pieces) - 1) ELSE pieces

\* str.strip()
strip(s) ==
    LET keep == {i \in 1..Len(s) : ~IsSpace(s[i])}
    IN IF keep = {} THEN <<>>
       ELSE SubSeq(s, CHOOSE i \in keep : \A j \in keep : i <= j,
                      CHOOSE i \in keep : \A j \in keep : i >= j)

\* Git.parse_diff_filenames
Git_parse_diff_filenames(diff_files) == splitlines(diff_files)

\* The ways '(\n|^) ?(?P<file_name>.*\.py)\s+\|' matches s from position i:
\* n = 1 for the alternative \n and 0 for ^, sp = 1 when the optional space
\* is taken, the group is s[i+n+sp .. k] and the match ends at the | at e.
HgMatchesAt(s, i) ==
    {m \in [n : {0, 1}, sp : {0, 1}, k : 1..Len(s), e : 1..Len(s)] :
        /\ IF m.n = 1 THEN i <= Len(s) /\ s[i] = "\n" ELSE i = 1
        /\ m.sp = 1 => (i + m.n <= Len(s) /\ s[i + m.n] = " ")
        /\ m.k >= i + m.n + m.sp + 2
        /\ SubSeq(s, m.k - 2, m.k) = <<".", "p", "y">>
        /\ \A j \in (i + m.n + m.sp)..m.k : s[j] # "\n"
        /\ m.e >= m.k + 2
        /\ s[m.e] = "|"
        /\ \A j \in (m.k + 1)..(m.e - 1) : IsSpace(s[j])}

\* The match the regular expression engine finds first among ms: the
\* alternative \n before ^, the optional space taken before not, the
\* longest .* first.
FirstTried(ms) ==
    CHOOSE m \in ms : \A o \in ms :
        \/ m.n > o.n
        \/ (m.n = o.n /\ m.sp > o.sp)
        \/ (m.n = o.n /\ m.sp = o.sp /\ m.k >= o.k)

RECURSIVE Hg_findall(_, _)
\* re.findall from position pos on: the file_name group of each match,
\* leftmost first, the next search starting where the match ended
Hg_findall(s, pos) ==
    LET starts == {i \in pos..Len(s) : HgMatchesAt(s, i) # {}}
    IN IF starts = {} THEN <<>>
       ELSE LET i == CHOOSE j \in starts : \A k \in starts : j <= k
                m == FirstTried(HgMatchesAt(s, i))
            IN <<SubSeq(s, i + m.n + m.sp, m.k)>> \o Hg_findall(s, m.e + 1)

\* Hg.parse_diff_filenames
Hg_parse_diff_filenames(diff_files) == Hg_findall(diff_files, 1)

\* The ways '[^ ]+\s+(.*.py)' matches line: [^ ]+ is line[i..a-1], \s+ is
\* line[a..b-1] and the group is line[b..k], ending in any character
\* followed by "py".
BzrMatches(line) ==
    {m \in [i : 1..Len(line), a : 1..Len(line), b : 1..Len(line), k : 1..Len(line)] :
        /\ m.i < m.a /\ m.a < m.b /\ m.b + 2 <= m.k
        /\ \A j \in m.i..(m.a - 1) : line[j] # " "
        /\ \A j \in m.a..(m.b - 1) : IsSpace(line[j])
        /\ \A j \in m.b..m.k : line[j] # "\n"
        /\ SubSeq(line, m.k - 1, m.k) = <<"p", "y">>}

\* fn[0] of re.findall: the group of the leftmost match, each of [^ ]+,
\* \s+ and .* as long as it can be, in that order
BzrFirstGroup(line) ==
    LET ms == BzrMatches(line)
        m == CHOOSE x \in ms : \A o \in ms :
                \/ x.i < o.i
                \/ (x.i = o.i /\ x.a > o.a)
                \/ (x.i = o.i /\ x.a = o.a /\ x.b > o.b)
                \/ (x.i = o.i /\ x.a = o.a /\ x.b = o.b /\ x.k >= o.k)
    IN SubSeq(line, m.b, m.k)

RECURSIVE Bzr_parse_loop(_, _)
\* the for loop of Bzr.parse_diff_filenames over the lines left
Bzr_parse_loop(lines, files) ==
    IF lines = <<>> THEN files
    ELSE LET line == strip(lines[1])
         IN Bzr_parse_loop(Tail(lines),
                IF BzrMatches(line) # {} /\ ~startswith(line, <<"?">>)
                THEN Append(files, BzrFirstGroup(line)) ELSE files)

\* Bzr.parse_diff_filenames
Bzr_parse_diff_filenames(diff_files) ==
    Bzr_parse_loop(splitlines(diff_files), <<>>)

(***************************************************************************)
(* Bounds                                                                  *)
(***************************************************************************)
\* longest backend name given to from_string
MaxNameLen == 3

\* the characters backend names are drawn from
NameChars == {"g", "i", "t", "h", "b", "z", "r", "G", "I", "T", "H", "_"}

Names == UNION {[1..n -> NameChars] : n \in 0..MaxNameLen}

\* the files a diff is asked for
Files == {<<"a",".","p","y">>, <<"d","/","b",".","p","y">>}

\* most lines of a diff summary
MaxLines == 3

\* the lines `git diff --name-only` prints
GitLines ==
    {<<"a",".","p","y">>, <<"b",".","t","x","t">>, <<"d","/","c",".","p","y">>}

\* the lines `hg diff --stat` prints
HgLines ==
    {<<" ","a",".","p","y"," ","|"," ","2"," ","+","-">>,
     <<" ","b",".","t","x","t"," ","|"," ","1"," ","+">>,
     <<" ","d","/","c",".","p","y"," ","|"," "," ","1"," ","+">>,
     <<" ","2"," ","f","i","l","e","s"," ","c","h","a","n","g","e","d">>}

\* the lines `bzr status -S` prints
BzrLines ==
    {<<"?"," "," "," ",".","g","i","t","i","g","n","o","r","e">>,
     <<"M"," "," ","0",".","p","y">>,
     <<"M"," "," ","0",".","t","x","t">>,
     <<"?"," "," "," ","n",".","p","y">>,
     <<" ","M"," "," ","d","/","c",".","p","y">>,
     <<"M"," "," ","n","u","m","p","y","/","x",".","c">>}

\* the sequences of at most MaxLines lines of pool
LineSeqs(pool) == UNION {[1..n -> pool] : n \in 0..MaxLines}

RECURSIVE Text(_)
\* the text of the lines ls, each ended by a newline
Text(ls) == IF ls = <<>> THEN <<>> ELSE ls[1] \o <<"\n">> \o Text(Tail(ls))

(***************************************************************************)
(* Initial values of the parts a specification does not use                *)
(***************************************************************************)
NoOp == [op |-> "none"]

SelIdle == gl \in {CHOOSE o \in GlobalsItemOrders : TRUE} /\ sel = NoOp

DrvIdle ==
    /\ repo = None /\ drv = None /\ ctor = None /\ op = NoOp /\ radius = None

ParseIdle == parsed = NoOp

(***************************************************************************)
(* Selector actions                                                        *)
(***************************************************************************)
\* VersionControl.which() in a working tree where the probes do as env says;
\* the backend is chosen once per run
Which ==
    /\ sel = NoOp
    /\ \E env \in ProbeEnvs :
        LET w == which(gl, [probe |-> env])
        IN sel' = [op |-> "which", arg |-> None, env |-> env,
                   calls |-> w.calls, res |-> w.res]
    /\ UNCHANGED <<gl, repo, drv, ctor, op, radius, parsed>>

\* VersionControl.from_string(vc)
FromString ==
    /\ sel = NoOp
    /\ \E vc \in Names :
        sel' = [op |-> "from_string", arg |-> T(vc), env |-> None,
                calls |-> <<>>, res |-> from_string(vc)]
    /\ UNCHANGED <<gl, repo, drv, ctor, op, radius, parsed>>

InitSel ==
    /\ gl \in GlobalsItemOrders /\ sel = NoOp
    /\ DrvIdle /\ ParseIdle

NextSel == Which \/ FromString

SpecSel == InitSel /\ [][NextSel]_vars

\* The Radius of a run: the revision asked for and r.rev, the resolved
\* revision its diff commands are given; there is none when the resolution
\* raised.
Radius_rev(rev, res) ==
    IF res.ok THEN [req |-> rev, rev |-> res.val] ELSE None

(***************************************************************************)
(* Driver actions                                                          *)
(***************************************************************************)
\* Git(root) / Hg(root) / Bzr(root): the driver of a run is made once
Construct ==
    /\ ctor = None
    /\ \E vc \in Backends, root \in {None} \cup {T(p) : p \in RootOverrides} :
        LET c == VersionControl_init(vc, root, repo)
        IN /\ ctor' = [vc |-> vc, root |-> root, calls |-> c.calls, res |-> c.res]
           /\ drv' = IF c.res.ok THEN c.res.val ELSE None
    /\ UNCHANGED <<gl, sel, repo, op, radius, parsed>>

\* driver.current_branch()
CurrentBranch ==
    /\ drv # None
    /\ LET c == current_branch(drv, repo)
       IN op' = [op |-> "current_branch", args |-> <<>>,
                 calls |-> c.calls, res |-> c.res]
    /\ UNCHANGED <<gl, sel, repo, drv, ctor, radius, parsed>>

\* driver.merge_base(rev1, rev2)
MergeBase ==
    /\ drv # None
    /\ \E rev1, rev2 \in RequestRevs :
        LET c == merge_base(drv, T(rev1), T(rev2), repo)
        IN op' = [op |-> "merge_base", args |-> <<T(rev1), T(rev2)>>,
                  calls |-> c.calls, res |-> c.res]
    /\ UNCHANGED <<gl, sel, repo, drv, ctor, radius, parsed>>

\* Radius.new(rev=rev, vc=...): the revision of the run is resolved once,
\* by driver._branch_point(rev), and kept as r.rev
BranchPoint ==
    /\ drv # None
    /\ radius = None
    /\ \E rev \in {None} \cup {T(r) : r \in RequestRevs} :
        LET c == VersionControl_branch_point(drv, rev, repo)
        IN /\ op' = [op |-> "branch_point", args |-> <<rev>>,
                     calls |-> c.calls, res |-> c.res]
           /\ radius' = Radius_rev(rev, c.res)
    /\ UNCHANGED <<gl, sel, repo, drv, ctor, parsed>>

\* the diff commands of the run: filenames_diff_cmd(r) and
\* file_diff_cmd(r, f), r being the Radius with the resolved revision
DiffCmds ==
    /\ drv # None
    /\ radius # None
    /\ \E f \in Files :
        op' = [op |-> "diff_cmds", args |-> <<T(f)>>, calls |-> <<>>,
               res |-> Ok([filenames |-> filenames_diff_cmd(drv.vc, radius),
                           file |-> file_diff_cmd(drv.vc, radius, T(f))])]
    /\ UNCHANGED <<gl, sel, repo, drv, ctor, radius, parsed>>

Init ==
    /\ SelIdle /\ ParseIdle
    /\ repo \in Repos
    /\ drv = None /\ ctor = None /\ op = NoOp /\ radius = None

Next == Construct \/ CurrentBranch \/ MergeBase \/ BranchPoint \/ DiffCmds

Spec == Init /\ [][Next]_vars

(***************************************************************************)
(* Parsing actions                                                         *)
(***************************************************************************)
\* Git.parse_diff_filenames(text)
ParseGit ==
    /\ parsed = NoOp
    /\ \E ls \in LineSeqs(GitLines) :
        parsed' = [op |-> "parse", vc |-> "git", lines |-> ls,
                   res |-> Git_parse_diff_filenames(Text(ls))]
    /\ UNCHANGED <<gl, sel, repo, drv, ctor, op, radius>>

\* Hg.parse_diff_filenames(text)
ParseHg ==
    /\ parsed = NoOp
    /\ \E ls \in LineSeqs(HgLines) :
        parsed' = [op |-> "parse", vc |-> "hg", lines |-> ls,
                   res |-> Hg_parse_diff_filenames(Text(ls))]
    /\ UNCHANGED <<gl, sel, repo, drv, ctor, op, radius>>

\* Bzr.parse_diff_filenames(text)
ParseBzr ==
    /\ parsed = NoOp
    /\ \E ls \in LineSeqs(BzrLines) :
        parsed' = [op |-> "parse", vc |-> "bzr", lines |-> ls,
                   res |-> Bzr_parse_diff_filenames(Text(ls))]
    /\ UNCHANGED <<gl, sel, repo, drv, ctor, op, radius>>

InitParse == SelIdle /\ DrvIdle /\ ParseIdle

NextParse == ParseGit \/ ParseHg \/ ParseBzr

SpecParse == InitParse /\ [][NextParse]_vars

(***************************************************************************)
(* Properties                                                              *)
(***************************************************************************)
\* the class a backend tag names
ClassOf(b) ==
    CASE b = "git" -> [cls |-> "Git"]
      [] b = "hg" -> [cls |-> "Hg"]
      [] b = "bzr" -> [cls |-> "Bzr"]

\* the backend tags in the order their probes come in globals().items()
ProbeOrder ==
    LET idx == {i \in 1..Len(gl) : \E b \in Backends : gl[i][2] = [probe |-> b]}
    IN [n \in 1..Cardinality(idx) |->
           gl[CHOOSE i \in idx : Cardinality({j \in idx : j < i}) = n - 1][2].probe]

\* the probes that would succeed, as positions of ProbeOrder
ProbeHits == {n \in 1..Len(ProbeOrder) : sel.env[ProbeOrder[n]].ok}

BackendNames == {<<"g","i","t">>, <<"h","g">>, <<"b","z","r">>}

\* the class a backend name names
ClassOfName(n) ==
    CASE n = <<"g","i","t">> -> [cls |-> "Git"]
      [] n = <<"h","g">> -> [cls |-> "Hg"]
      [] n = <<"b","z","r">> -> [cls |-> "Bzr"]

\* C2 as stated: from_string resolves exactly when the name is git, hg or
\* bzr, and runs no probe.
C2_Original ==
    sel.op = "from_string" =>
        /\ sel.res.ok <=> sel.arg.tok \in BackendNames
        /\ sel.calls = <<>>

\* C2 amended: from_string resolves exactly when the name is git, hg or
\* bzr in any mix of upper and lower case, to that backend's class; every
\* other name raises NotImplementedError; no probe is run.
C2_FromStringAnyCase ==
    sel.op = "from_string" =>
        /\ sel.calls = <<>>
        /\ sel.res = IF lower(sel.arg.tok) \in BackendNames
                     THEN Ok(ClassOfName(lower(sel.arg.tok)))
                     ELSE Raise("NotImplementedError")

\* C2 happens: a name that is not git, hg or bzr as written resolves.
C2_Witness ==
    /\ sel.op = "from_string"
    /\ sel.res.ok
    /\ sel.arg.tok \notin BackendNames

\* the diff commands of backend vc for revision argument rev and file f
ExpectedFilenamesCmd(vc, rev) ==
    CASE vc = "git" -> <<L("git"), L("diff"), rev, L("--name-only")>>
      [] vc = "hg" -> <<L("hg"), L("diff"), L("--stat"), L("-r"), rev>>
      [] vc = "bzr" -> <<L("bzr"), L("status"), L("-S"), L("-r"), rev>>

ExpectedFileCmd(vc, rev, f) ==
    CASE vc = "git" -> <<L("git"), L("diff"), rev, f>>
      [] vc = "hg" -> <<L("hg"), L("diff"), L("-r"), rev, f>>
      [] vc = "bzr" -> <<L("bzr"), L("diff"), f, L("-r"), rev>>

\* the diff commands of backend vc with no revision argument at all
NoRevFilenamesCmd(vc) ==
    CASE vc = "git" -> <<L("git"), L("diff"), L("--name-only")>>
      [] vc = "hg" -> <<L("hg"), L("diff"), L("--stat")>>
      [] vc = "bzr" -> <<L("bzr"), L("status"), L("-S")>>

NoRevFileCmd(vc, f) ==
    CASE vc = "git" -> <<L("git"), L("diff"), f>>
      [] vc = "hg" -> <<L("hg"), L("diff"), f>>
      [] vc = "bzr" -> <<L("bzr"), L("diff"), f>>

\* C3 as stated: with no revision requested the resolution answers the
\* "no base" sentinel, and the diff commands built afterwards carry no
\* revision argument.
C3_Original ==
    /\ (op.op = "branch_point" /\ op.args[1] = None /\ op.res.ok) =>
           op.res.val = None
    /\ (op.op = "diff_cmds" /\ radius.req = None) =>
           /\ op.res.val.filenames = NoRevFilenamesCmd(drv.vc)
           /\ op.res.val.file = NoRevFileCmd(drv.vc, op.args[1])

\* C3 amended: with no revision requested the resolution runs the
\* identify-current-revision command once and answers the current
\* revision of the working tree, and the diff commands built afterwards
\* carry that revision as their revision argument.
C3_TipWhenNoRevision ==
    /\ (op.op = "branch_point" /\ op.args[1] = None) =>
           /\ Len(op.calls) = 1
           /\ op.res.ok <=> repo.tip # None
           /\ op.res.ok => /\ op.res.val = repo.tip
                           /\ radius = [req |-> None, rev |-> repo.tip]
    /\ (op.op = "diff_cmds" /\ radius.req = None) =>
           /\ repo.tip # None
           /\ op.res.val.filenames = ExpectedFilenamesCmd(drv.vc, repo.tip)
           /\ op.res.val.file = ExpectedFileCmd(drv.vc, repo.tip, op.args[1])

\* C3 happens: diff commands are built after a resolution with no revision.
C3_Witness == op.op = "diff_cmds" /\ radius.req = None

\* the words that name a backend's merge-base command
MergeBaseWords == {L("merge-base"), L("debugancestor"), L("find-merge-base")}

\* C4 as stated: a requested revision is answered as it is, and no
\* merge-base command is run.
C4_Original ==
    (op.op = "branch_point" /\ op.args[1] # None /\ op.res.ok) =>
        /\ op.res.val = op.args[1]
        /\ \A i \in 1..Len(op.calls) : op.calls[i].argv[2] \notin MergeBaseWords

\* C4 amended: a requested revision is always resolved through the
\* backend's merge-base command, run on the requested revision; the answer
\* is the ancestor the backend reports, which is the requested revision
\* only when the backend reports it.
C4_MergeBaseAlways ==
    (op.op = "branch_point" /\ op.args[1] # None /\ op.res.ok) =>
        LET last == op.calls[Len(op.calls)]
        IN /\ Len(op.calls) >= 2
           /\ last.argv[2] \in MergeBaseWords
           /\ last.argv[3] = op.args[1]
           /\ repo.anc # None => op.res.val = repo.anc
           /\ radius = [req |-> op.args[1], rev |-> op.res.val]

\* C4 happens: a requested revision resolves to another revision.
C4_Witness ==
    /\ op.op = "branch_point" /\ op.args[1] # None /\ op.res.ok
    /\ op.res.val # op.args[1]

\* C5: for each backend, resolving a requested revision the repository does
\* not have fails with the CalledProcessError of the backend command and no
\* revision is kept.
C5_UnknownRevisionFails ==
    (op.op = "branch_point" /\ op.args[1] # None /\ ~IsKnown(op.args[1])) =>
        /\ op.res = Raise("CalledProcessError")
        /\ radius = None

\* C5 happens: the Bazaar driver, whose current revision is found, is asked
\* for a revision the repository does not have.
C5_Witness ==
    /\ op.op = "branch_point" /\ op.args[1] = T(JunkRev)
    /\ drv.vc = "bzr"
    /\ Len(op.calls) = 2

\* whether text v is what follows the last space of text out
IsTrailingToken(v, out) ==
    /\ \A i \in 1..Len(v) : v[i] # " "
    /\ Len(out) > Len(v)
    /\ out[Len(out) - Len(v)] = " "
    /\ SubSeq(out, Len(out) - Len(v) + 1, Len(out)) = v

\* C6: Bazaar merge_base(revA, revB) first asks for the log entry of revA;
\* when that fails it raises and find-merge-base is not run; when it
\* succeeds find-merge-base is run on (revA, revB), its exit code is
\* ignored and the text after the last space of its output is answered.
C6_BzrLogBeforeFindMergeBase ==
    (op.op = "merge_base" /\ drv.vc = "bzr") =>
        /\ Len(op.calls) >= 1
        /\ op.calls[1].argv = <<L("bzr"), L("log"), L("-c"), op.args[1]>>
        /\ ~op.calls[1].ignore
        /\ ~IsKnown(op.args[1]) => ~op.calls[1].ok
        /\ ~op.calls[1].ok =>
               Len(op.calls) = 1 /\ op.res = Raise("CalledProcessError")
        /\ op.calls[1].ok =>
               /\ Len(op.calls) = 2
               /\ op.calls[2].argv =
                      <<L("bzr"), L("find-merge-base"), op.args[1], op.args[2]>>
               /\ op.calls[2].ignore
               /\ op.res.ok
               /\ IsTrailingToken(op.res.val.tok, op.calls[2].out)

\* C6 happens: the log check passes and find-merge-base exits with a
\* failure, whose output is still used.
C6_Witness ==
    /\ op.op = "merge_base" /\ drv.vc = "bzr"
    /\ Len(op.calls) = 2
    /\ ~op.calls[2].ok
    /\ op.res.ok

\* the paths a diff summary reports, by backend
ReportedPaths(vc, lines) ==
    CASE vc = "git" -> {strip(lines[i]) : i \in 1..Len(lines)}
      [] vc = "hg" ->
            {strip(split(lines[i], "|")[1]) :
                i \in {j \in 1..Len(lines) : Positions(lines[j], "|") # {}}}
      [] vc = "bzr" ->
            {strip(SliceFrom(strip(lines[i]),
                       (CHOOSE k \in Positions(strip(lines[i]), " ") :
                            \A m \in Positions(strip(lines[i]), " ") : k <= m))) :
                i \in {j \in 1..Len(lines) :
                          /\ Positions(strip(lines[j]), " ") # {}
                          /\ ~startswith(strip(lines[j]), <<"?">>)}}

\* C7: for the three backends, every path parse_diff_filenames answers is a
\* path reported on a line of the summary (for Bazaar, a line that is not
\* marked ? as unknown) and ends in .py.
C7_OnlySourcePaths ==
    parsed.op = "parse" =>
        \A i \in 1..Len(parsed.res) :
            /\ endswith(parsed.res[i], <<".", "p", "y">>)
            /\ parsed.res[i] \in ReportedPaths(parsed.vc, parsed.lines)

\* the command that identifies the current revision, by backend
TipCmd(vc) ==
    CASE vc = "git" -> <<L("git"), L("rev-parse"), L("HEAD")>>
      [] vc = "hg" -> <<L("hg"), L("id")>>
      [] vc = "bzr" -> <<L("bzr"), L("version-info"), L("--custom"),
                         L("--template={revision_id}")>>

\* the word that names the merge-base command, by backend
MergeBaseWord(vc) ==
    CASE vc = "git" -> L("merge-base")
      [] vc = "hg" -> L("debugancestor")
      [] vc = "bzr" -> L("find-merge-base")

\* C8: with a requested revision, _branch_point identifies the current
\* revision first and once, then runs the merge-base command with the
\* requested revision as first and the current revision as second
\* argument, and answers the ancestor the backend reports.
C8_MergeBaseOfRevAndTip ==
    (op.op = "branch_point" /\ op.args[1] # None) =>
        /\ Len(op.calls) >= 1
        /\ op.calls[1].argv = TipCmd(drv.vc)
        /\ Cardinality({i \in 1..Len(op.calls) :
                            op.calls[i].argv = TipCmd(drv.vc)}) = 1
        /\ ~op.calls[1].ok => Len(op.calls) = 1 /\ ~op.res.ok
        /\ op.calls[1].ok =>
               LET last == op.calls[Len(op.calls)]
               IN /\ Len(op.calls) >= 2
                  /\ last.argv[1] = L(drv.vc)
                  /\ last.argv[2] \in {MergeBaseWord(drv.vc), L("log")}
                  /\ last.argv[2] = MergeBaseWord(drv.vc) =>
                         last.argv = <<L(drv.vc), MergeBaseWord(drv.vc),
                                       op.args[1], repo.tip>>
                  /\ op.res.ok =>
                         /\ last.argv[2] = MergeBaseWord(drv.vc)
                         /\ repo.anc # None => op.res.val = repo.anc

\* C8 happens: the Mercurial driver, in a tree with uncommitted changes,
\* resolves a requested revision that is not the current one.
C8_Witness ==
    /\ op.op = "branch_point" /\ op.args[1] # None /\ op.res.ok
    /\ drv.vc = "hg" /\ repo.dirty
    /\ op.args[1] # repo.tip

\* the invocations of the operations made so far: the construction and the
\* last driver operation
DoneOps == (IF ctor = None THEN {} ELSE {ctor}) \cup
           (IF op.op = "none" THEN {} ELSE {op})

\* C9: within one operation no command is run twice, and an invocation
\* that fails is the last one of the operation, which then fails with its
\* error; the one invocation whose failure is passed over is Bazaar's
\* find-merge-base.
C9_NoRetry ==
    \A o \in DoneOps :
        /\ \A i, j \in 1..Len(o.calls) :
               i # j => o.calls[i].argv # o.calls[j].argv
        /\ \A i \in 1..Len(o.calls) :
               /\ o.calls[i].ignore =>
                      o.calls[i].argv[2] = L("find-merge-base")
               /\ (~o.calls[i].ok /\ ~o.calls[i].ignore) =>
                      /\ i = Len(o.calls)
                      /\ o.res = Raise("CalledProcessError")

\* C9 happens: the current revision is found and the merge-base command
\* then fails.
C9_Witness ==
    /\ op.op = "branch_point"
    /\ Len(op.calls) = 2
    /\ ~op.calls[2].ok
    /\ ~op.res.ok

\* the command that prints the repository root, by backend
RootCmd(vc) ==
    CASE vc = "git" -> <<L("git"), L("rev-parse"), L("--show-toplevel")>>
      [] vc = "hg" -> <<L("hg"), L("root")>>
      [] vc = "bzr" -> <<L("bzr"), L("root")>>

\* the components of a path that name something
NamedComps(p) ==
    SelectSeq(split(p, "/"), LAMBDA c : c # <<>> /\ c # <<".">>)

\* C10: the driver's root is the root given to the constructor, and then
\* no command is run; given none, it is what the root-detection command
\* printed (normalised by the Git driver), and the construction fails when
\* that command fails.  It stays so after every operation, and every
\* command of an operation is run in it.
C10_RootFixed ==
    /\ ctor = None => drv = None
    /\ ctor # None =>
           IF ctor.root # None
           THEN /\ ctor.calls = <<>>
                /\ drv = [vc |-> ctor.vc, root |-> ctor.root]
           ELSE /\ Len(ctor.calls) = 1
                /\ ctor.calls[1].argv = RootCmd(ctor.vc)
                /\ ctor.calls[1].cwd = None
                /\ ~ctor.calls[1].ok => drv = None /\ ~ctor.res.ok
                /\ ctor.calls[1].ok =>
                       /\ drv # None /\ drv.vc = ctor.vc
                       /\ IF ctor.vc = "git"
                          THEN /\ drv.root.tok =
                                      <<"/">> \o join(NamedComps(ctor.calls[1].out), "/")
                          ELSE drv.root = T(ctor.calls[1].out)
    /\ op.op # "none" =>
           /\ drv # None
           /\ \A i \in 1..Len(op.calls) : op.calls[i].cwd = drv.root

\* C10 happens: a driver whose root was detected has run the two commands
\* of a branch-point resolution.
C10_Witness ==
    /\ ctor # None /\ ctor.root = None
    /\ op.op = "branch_point"
    /\ Len(op.calls) = 2

====
